---- MODULE Spec2Model ----
(***************************************************************************)
(* Connect-4 solver (solver.cpp): negamax with alpha-beta pruning, a lossy *)
(* transposition table of upper bounds, null-window narrowing in solve,    *)
(* and the line-oriented driver of main.                                   *)
(*                                                                         *)
(* The board is scaled down (WIDTH x HEIGHT below) so that whole searches  *)
(* are explored; a bitboard is the set of its set bit indices, and the     *)
(* cell of column c, row r is bit c*(HEIGHT+1)+r as in the 7x6 layout.     *)
(* position.hpp, TranspositionTable.hpp and MoveSorter.hpp are not part of *)
(* the sources at hand; they are modelled from their description.          *)
(***************************************************************************)
EXTENDS Integers, Sequences, FiniteSets, TLC

\* ------------------------------------------------------------------------
\* Bounds of the model
\* ------------------------------------------------------------------------
WIDTH == 4
HEIGHT == 4
LOG_SIZE == 3
MaxEmpty == 9
MaxSuffix == 3
MaxLines == 2
MaxCalls == 3
MaxWindow == 2
MaxCtorWidth == 13

\* ------------------------------------------------------------------------
\* Integer helpers
\* ------------------------------------------------------------------------
\* C++ integer division, truncating toward zero (b > 0)
CDiv(a, b) == IF a >= 0 THEN a \div b ELSE -((-a) \div b)

RECURSIVE Pow2(_)
Pow2(n) == IF n = 0 THEN 1 ELSE 2 * Pow2(n - 1)

\* value of a bitboard given as the set of its set bit indices
RECURSIVE BitValue(_)
BitValue(S) == IF S = {} THEN 0
               ELSE LET b == CHOOSE x \in S : TRUE
                    IN Pow2(b) + BitValue(S \ {b})

Max2(a, b) == IF a >= b THEN a ELSE b

sign(x) == IF x > 0 THEN 1 ELSE IF x < 0 THEN -1 ELSE 0

\* ------------------------------------------------------------------------
\* Position
\* ------------------------------------------------------------------------
MIN_SCORE == CDiv(-(WIDTH * HEIGHT), 2)
MAX_SCORE == CDiv(WIDTH * HEIGHT + 1, 2)

Cell(c, r) == c * (HEIGHT + 1) + r
ColOf(b) == b \div (HEIGHT + 1)
RowOf(b) == b % (HEIGHT + 1)

board_mask == {Cell(c, r) : c \in 0..(WIDTH - 1), r \in 0..(HEIGHT - 1)}
column_mask(col) == {Cell(col, r) : r \in 0..(HEIGHT - 1)}

\* the four-cell alignments of the board (vertical, horizontal, two diagonals)
Directions == {<<0, 1>>, <<1, 0>>, <<1, 1>>, <<1, -1>>}

Alignments ==
  {{Cell(t[1] + i * t[3][1], t[2] + i * t[3][2]) : i \in 0..3} :
     t \in {u \in (0..(WIDTH - 1)) \X (0..(HEIGHT - 1)) \X Directions :
              /\ u[1] + 3 * u[3][1] \in 0..(WIDTH - 1)
              /\ u[2] + 3 * u[3][2] \in 0..(HEIGHT - 1)}}

EmptyPosition == [current_position |-> {}, mask |-> {}, moves |-> 0]

nbMoves(P) == P.moves

\* key = current_position + mask
key(P) == BitValue(P.current_position) + BitValue(P.mask)

\* free cells completing an alignment of three stones of `position`
compute_winning_position(position, mask) ==
  {e \in board_mask \ mask :
     \E a \in Alignments : e \in a /\ (a \ {e}) \subseteq position}

\* lowest empty cell of every column that is not full: (mask + bottom) & board
possible(P) ==
  {b \in board_mask \ P.mask : RowOf(b) = 0 \/ (b - 1) \in P.mask}

winning_position(P) == compute_winning_position(P.current_position, P.mask)

opponent_winning_position(P) ==
  compute_winning_position(P.mask \ P.current_position, P.mask)

canWinNext(P) == (winning_position(P) \cap possible(P)) # {}

possibleNonLosingMoves(P) ==
  LET possible_mask == possible(P)
      opponent_win == opponent_winning_position(P)
      forced_moves == possible_mask \cap opponent_win
      candidates == IF forced_moves # {} THEN forced_moves ELSE possible_mask
  IN IF Cardinality(forced_moves) > 1 THEN {}
     ELSE {m \in candidates : (m + 1) \notin opponent_win}

\* play(move): the opponent becomes the player to move
play(P, move) ==
  [current_position |-> P.mask \ P.current_position,
   mask |-> P.mask \cup {move},
   moves |-> P.moves + 1]

canPlay(P, col) == Cell(col, HEIGHT - 1) \notin P.mask

isWinningMove(P, col) ==
  (winning_position(P) \cap possible(P) \cap column_mask(col)) # {}

playCol(P, col) ==
  play(P, CHOOSE m \in possible(P) : m \in column_mask(col))

\* play(sequence): a character is its digit value ('1' is 1); the result is
\* the position reached and the number of characters applied
RECURSIVE playFrom(_, _, _)
playFrom(P, seq, i) ==
  IF i > Len(seq) THEN [P |-> P, n |-> Len(seq)]
  ELSE LET col == seq[i] - 1
       IN IF col < 0 \/ col >= WIDTH THEN [P |-> P, n |-> i - 1]
          ELSE IF ~canPlay(P, col) \/ isWinningMove(P, col)
               THEN [P |-> P, n |-> i - 1]
               ELSE playFrom(playCol(P, col), seq, i + 1)

playSeq(seq) == playFrom(EmptyPosition, seq, 1)

\* number of alignments the move opens for the player to move
moveScore(P, move) ==
  LET position == P.current_position \cup {move}
  IN Cardinality({a \in Alignments :
                    /\ Cardinality(a \cap position) = 3
                    /\ (a \ position) \cap P.mask = {}})


\* ------------------------------------------------------------------------
\* MoveSorter: entries in ascending score order, the last one is next
\* ------------------------------------------------------------------------
add(entries, move, score) ==
  LET IsLow(e) == e.score <= score
      IsHigh(e) == e.score > score
  IN SelectSeq(entries, IsLow) \o <<[move |-> move, score |-> score]>>
       \o SelectSeq(entries, IsHigh)

\* ------------------------------------------------------------------------
\* TranspositionTable: size slots, each a truncated key and a value
\* ------------------------------------------------------------------------
IsPrime(n) == n > 1 /\ \A d \in 2..(n - 1) : n % d # 0

next_prime(n) == CHOOSE p \in n..(2 * n) : IsPrime(p) /\ \A q \in n..(p - 1) : ~IsPrime(q)

size == next_prime(Pow2(LOG_SIZE))

key_size == WIDTH * (HEIGHT + 1)

index(k) == k % size

\* the key as stored: its low key_size - LOG_SIZE bits
truncated(k) == k % Pow2(key_size - LOG_SIZE)

EmptyTable == [K |-> [i \in 0..(size - 1) |-> 0], V |-> [i \in 0..(size - 1) |-> 0]]

put(T, k, value) ==
  [K |-> [T.K EXCEPT ![index(k)] = truncated(k)],
   V |-> [T.V EXCEPT ![index(k)] = value]]

get(T, k) == IF T.K[index(k)] = truncated(k) THEN T.V[index(k)] ELSE 0

\* ------------------------------------------------------------------------
\* Solver: the arithmetic of negamax and solve
\* ------------------------------------------------------------------------
\* columnOrder[i] of the constructor, for a board of width w (line 149)
ColumnOrderEntry(w, i) == w \div 2 + CDiv((1 - 2 * (i % 2)) * (i + 1), 2)

\* seeded fault: the loss is scored one stone late
LosingScoreOneStoneLate(P) == CDiv(-(WIDTH * HEIGHT - 1 - nbMoves(P)), 2)

\* line 67: no non-losing move, the opponent wins with the next stone
LosingScore(P) == CDiv(-(WIDTH * HEIGHT - nbMoves(P)), 2)

\* line 69
IsDrawEnd(P) == nbMoves(P) >= WIDTH * HEIGHT - 2

\* seeded fault: the lower bound of a position that cannot lose at once
\* taken for the one two stones later
LowerBoundTwoStonesLate(P) == CDiv(-(WIDTH * HEIGHT - 4 - nbMoves(P)), 2)

\* line 72
LowerBound(P) == CDiv(-(WIDTH * HEIGHT - 2 - nbMoves(P)), 2)

\* seeded fault: the stored value decoded one too low
UpperBoundDecodedLow(P, T) ==
  LET val == get(T, key(P))
  IN IF val # 0 THEN val + MIN_SCORE - 2
     ELSE CDiv(WIDTH * HEIGHT - 1 - nbMoves(P), 2)

\* lines 78-80
UpperBound(P, T) ==
  LET val == get(T, key(P))
  IN IF val # 0 THEN val + MIN_SCORE - 1
     ELSE CDiv(WIDTH * HEIGHT - 1 - nbMoves(P), 2)

\* lines 88-92: the non-losing moves, added in reverse column order
RECURSIVE SortMoves(_, _, _, _)
SortMoves(P, next, order, i) ==
  IF i = 0 THEN <<>>
  ELSE LET earlier == SortMoves(P, next, order, i - 1)
           \* the loop runs i = WIDTH-1 down to 0: step i of the recursion
           \* handles columnOrder[WIDTH - i]
           move == next \cap column_mask(order[WIDTH - i + 1])
       IN IF move = {} THEN earlier
          ELSE LET m == CHOOSE b \in move : TRUE
               IN add(earlier, m, moveScore(P, m))

\* seeded fault: the window negated but not swapped
ChildWindowNotSwapped(alpha, beta) == [alpha |-> -alpha, beta |-> -beta]

\* line 97: the window handed to the child
ChildWindow(alpha, beta) == [alpha |-> -beta, beta |-> -alpha]

\* seeded fault: the upper bound stored without the + 1
StoredValueNoOffset(alpha) == alpha - MIN_SCORE

\* line 106: the upper bound as stored
StoredValue(alpha) == alpha - MIN_SCORE + 1

\* line 115
ImmediateWinScore(P) == CDiv(WIDTH * HEIGHT + 1 - nbMoves(P), 2)

\* lines 116-121
SolveMin(P, wk) == IF wk THEN -1 ELSE CDiv(-(WIDTH * HEIGHT - nbMoves(P)), 2)
SolveMax(P, wk) == IF wk THEN 1 ELSE CDiv(WIDTH * HEIGHT + 1 - nbMoves(P), 2)

\* lines 124-126
SolveMed(mn, mx) ==
  LET med == mn + CDiv(mx - mn, 2)
  IN IF med <= 0 /\ CDiv(mn, 2) < med THEN CDiv(mn, 2)
     ELSE IF med >= 0 /\ CDiv(mx, 2) > med THEN CDiv(mx, 2)
     ELSE med

\* seeded fault: max narrowed to med + 1 instead of the probe's value
SolveNarrowKeepsGap(mn, mx, med, r) ==
  IF r <= med THEN [min |-> mn, max |-> med + 1] ELSE [min |-> r, max |-> mx]

\* lines 128-129
SolveNarrow(mn, mx, med, r) ==
  IF r <= med THEN [min |-> mn, max |-> r] ELSE [min |-> r, max |-> mx]

\* lines 65-92: the part of negamax before the move loop.  Either the call
\* returns at once (ret) or it goes on to search with a tightened window.
NegamaxHead(P, alpha, beta, T, order) ==
  LET next == possibleNonLosingMoves(P)
      min == LowerBound(P)
      alpha1 == IF alpha < min THEN min ELSE alpha
      max == UpperBound(P, T)
      beta1 == IF beta > max THEN max ELSE beta
  IN IF next = {} THEN [search |-> FALSE, ret |-> LosingScore(P)]
     ELSE IF IsDrawEnd(P) THEN [search |-> FALSE, ret |-> 0]
     ELSE IF alpha < min /\ alpha1 >= beta THEN [search |-> FALSE, ret |-> alpha1]
     ELSE IF beta > max /\ alpha1 >= beta1 THEN [search |-> FALSE, ret |-> beta1]
     ELSE [search |-> TRUE, alpha |-> alpha1, beta |-> beta1,
           moves |-> SortMoves(P, next, order, WIDTH)]

\* ------------------------------------------------------------------------
\* Inputs: move sequences (a character is its digit value, '1' is 1)
\* ------------------------------------------------------------------------
\* A game in which nobody ever wins: row by row, the players fill the
\* colouring in which cell (c, r) belongs to player (b[c mod 4] + r) mod 2,
\* b = 0 1 1 0.  No four cells in a line share a colour.
Colour(c, r) == (<<0, 1, 1, 0>>[(c % 4) + 1] + r) % 2

BaseChar(i) ==
  LET r == (i - 1) \div WIDTH
      j == (i - 1) % WIDTH
      player == (i - 1) % 2
      mine == {c \in 0..(WIDTH - 1) : Colour(c, r) = player}
  IN 1 + CHOOSE c \in mine : Cardinality({d \in mine : d < c}) = j \div 2

\* the first WIDTH*HEIGHT - MaxEmpty moves of that game
BaseLine == [i \in 1..(WIDTH * HEIGHT - MaxEmpty) |-> BaseChar(i)]

IsValidLine(ln) == playSeq(ln).n = Len(ln)

\* the base game continued by up to MaxSuffix arbitrary moves
SolveLines ==
  {ln \in {BaseLine \o s : s \in UNION {[1..k -> 1..WIDTH] : k \in 0..MaxSuffix}} :
     IsValidLine(ln)}

\* three positions with a common parent, for sequences of solve calls
ApiLines == {ln \in {BaseLine \o <<WIDTH, 2, c>> : c \in 1..3} : IsValidLine(ln)}

\* lines fed to main: siblings of one position, a character out of range
\* after them, and three malformed lines (out of range at once, the
\* character '0', a column overflowing)
DriverLines ==
  {BaseLine \o <<WIDTH, 2, c>> : c \in 1..(WIDTH + 1)}
    \cup {<<WIDTH + 1>>, <<1, 0>>, [i \in 1..(HEIGHT + 1) |-> 1]}

\* ------------------------------------------------------------------------
\* State
\* ------------------------------------------------------------------------
VARIABLES
  pc,           \* where the program is: "ctor", "main", "idle", "solve",
                \* "enter", "loop", "return", "solved", "exit", "abort"
  construct,    \* constructor: [W, i], the width and the loop index
  columnOrder,  \* Solver::columnOrder, entry i of the code at index i+1
  nodeCount,    \* Solver::nodeCount
  transTable,   \* Solver::transTable
  weak,         \* the weak flag of the current solve (main: of the process)
  l,            \* main: line number
  line,         \* main: the line read
  out,          \* standard output, one entry per line written
  err,          \* standard error, one entry per diagnostic
  root,         \* solve: its argument P
  min,          \* solve: min
  max,          \* solve: max
  med,          \* solve: med
  result,       \* the value solve returned
  arg,          \* negamax: the arguments of the call being entered
  stack,        \* negamax: the frames of the calls inside their move loop
  ret,          \* negamax: the value just returned
  direct,       \* TRUE when negamax was called directly, not from solve
  history       \* bookkeeping for the properties, never read by the program

solverVars == <<construct, columnOrder, nodeCount, transTable>>
mainVars == <<l, line, out, err>>
solveVars == <<root, min, max, med, result>>
negamaxVars == <<arg, stack, ret>>
vars == <<pc, construct, columnOrder, nodeCount, transTable, weak, l, line, out,
          err, root, min, max, med, result, arg, stack, ret, direct, history>>

NoPosition == EmptyPosition
NoArg == [P |-> NoPosition, alpha |-> 0, beta |-> 0]

\* history: calls = calls of solve (or negamax) made from outside; entered =
\* negamax calls entered since the current solve began; before = nodeCount
\* when it began; empty = the table was empty when it began; fresh = the
\* result and the nodes of the strong solves that began on an empty table,
\* by position; from =
\* the arguments of the negamax call that just returned; input = the lines
\* main has read; resets, solves = main's calls of reset and solve
NoHistory ==
  [calls |-> 0, entered |-> 0, before |-> 0, empty |-> TRUE, fresh |-> <<>>,
   from |-> NoArg, input |-> <<>>, resets |-> 0, solves |-> 0]

\* the state of a Solver after its constructor ran for a board of width w
Constructed(w) ==
  /\ construct = [W |-> w, i |-> w]
  /\ columnOrder = [i \in 1..w |-> ColumnOrderEntry(w, i - 1)]
  /\ nodeCount = 0
  /\ transTable = EmptyTable

Quiet ==
  /\ root = NoPosition /\ min = 0 /\ max = 0 /\ med = 0 /\ result = 0
  /\ arg = NoArg /\ stack = <<>> /\ ret = 0 /\ direct = FALSE
  /\ history = NoHistory

\* main, after `Solver solver;` and the flag parsing
Init ==
  /\ pc = "main"
  /\ Constructed(WIDTH)
  /\ weak \in BOOLEAN
  /\ l = 1 /\ line = <<>> /\ out = <<>> /\ err = <<>>
  /\ Quiet

\* ------------------------------------------------------------------------
\* Solver::Solver (lines 146-152), one loop iteration per step
\* ------------------------------------------------------------------------
CtorStep ==
  /\ pc = "ctor"
  /\ construct.i < construct.W
  /\ columnOrder' = Append(columnOrder, ColumnOrderEntry(construct.W, construct.i))
  /\ construct' = [construct EXCEPT !.i = @ + 1]
  /\ UNCHANGED <<pc, nodeCount, transTable, weak, mainVars, solveVars,
                 negamaxVars, direct, history>>

CtorDone ==
  /\ pc = "ctor"
  /\ construct.i = construct.W
  /\ pc' = "idle"
  /\ UNCHANGED <<solverVars, weak, mainVars, solveVars, negamaxVars, direct,
                 history>>

\* ------------------------------------------------------------------------
\* Solver::negamax (lines 59-108)
\* ------------------------------------------------------------------------
Top == stack[Len(stack)]
Pop == SubSeq(stack, 1, Len(stack) - 1)

\* lines 60-92: the assertions, the node counter, the early returns, the
\* window tightening and the move ordering
NegamaxEnter ==
  /\ pc = "enter"
  /\ IF ~(arg.alpha < arg.beta) \/ canWinNext(arg.P)
     THEN /\ pc' = "abort"
          /\ UNCHANGED <<nodeCount, stack, ret, history>>
     ELSE LET h == NegamaxHead(arg.P, arg.alpha, arg.beta, transTable, columnOrder)
          IN /\ nodeCount' = nodeCount + 1
             /\ IF h.search
                THEN /\ stack' = Append(stack,
                          [P |-> arg.P, alpha |-> h.alpha, beta |-> h.beta,
                           moves |-> h.moves,
                           alpha0 |-> arg.alpha, beta0 |-> arg.beta])
                     /\ pc' = "loop"
                     /\ ret' = ret
                     /\ history' = [history EXCEPT !.entered = @ + 1]
                ELSE /\ ret' = h.ret
                     /\ pc' = "return"
                     /\ stack' = stack
                     /\ history' = [history EXCEPT !.entered = @ + 1, !.from = arg]
  /\ UNCHANGED <<construct, columnOrder, transTable, weak, mainVars, solveVars,
                 arg, direct>>

\* lines 94-97 and 106-107: the head of the move loop
NegamaxLoop ==
  /\ pc = "loop"
  /\ IF Top.moves = <<>>
     THEN /\ transTable' = put(transTable, key(Top.P), StoredValue(Top.alpha))
          /\ ret' = Top.alpha
          /\ stack' = Pop
          /\ pc' = "return"
          /\ arg' = arg
          /\ history' = [history EXCEPT
                           !.from = [P |-> Top.P, alpha |-> Top.alpha0,
                                     beta |-> Top.beta0]]
     ELSE LET next == Top.moves[Len(Top.moves)].move
              w == ChildWindow(Top.alpha, Top.beta)
          IN /\ stack' = [stack EXCEPT ![Len(stack)].moves =
                                          SubSeq(@, 1, Len(@) - 1)]
             /\ arg' = [P |-> play(Top.P, next), alpha |-> w.alpha, beta |-> w.beta]
             /\ pc' = "enter"
             /\ UNCHANGED <<transTable, ret, history>>
  /\ UNCHANGED <<construct, columnOrder, nodeCount, weak, mainVars, solveVars,
                 direct>>

\* lines 97-102: a child returned into the move loop
NegamaxReturn ==
  /\ pc = "return"
  /\ stack # <<>>
  /\ LET score == -ret
     IN IF score >= Top.beta
        THEN /\ ret' = score
             /\ stack' = Pop
             /\ pc' = "return"
             /\ history' = [history EXCEPT
                              !.from = [P |-> Top.P, alpha |-> Top.alpha0,
                                        beta |-> Top.beta0]]
        ELSE /\ stack' = [stack EXCEPT ![Len(stack)].alpha = Max2(@, score)]
             /\ pc' = "loop"
             /\ UNCHANGED <<ret, history>>
  /\ UNCHANGED <<solverVars, weak, mainVars, solveVars, arg, direct>>

\* ------------------------------------------------------------------------
\* Solver::solve (lines 112-132) and Solver::reset (lines 139-143)
\* ------------------------------------------------------------------------
\* lines 114-121, the part of solve before its loop
SolveBegin(P, wk) ==
  /\ root' = P
  /\ direct' = FALSE
  /\ IF canWinNext(P)
     THEN /\ result' = ImmediateWinScore(P)
          /\ pc' = "solved"
          /\ UNCHANGED <<min, max>>
     ELSE /\ min' = SolveMin(P, wk)
          /\ max' = SolveMax(P, wk)
          /\ pc' = "solve"
          /\ UNCHANGED result
  /\ UNCHANGED <<med, negamaxVars>>

\* lines 123-127 and 131: the loop test, then the probe or the return
SolveLoop ==
  /\ pc = "solve"
  /\ IF min < max
     THEN /\ med' = SolveMed(min, max)
          /\ arg' = [P |-> root, alpha |-> med', beta |-> med' + 1]
          /\ pc' = "enter"
          /\ UNCHANGED result
     ELSE /\ result' = min
          /\ pc' = "solved"
          /\ UNCHANGED <<med, arg>>
  /\ UNCHANGED <<solverVars, weak, mainVars, root, min, max, stack, ret, direct,
                 history>>

\* lines 127-129: the probe returned
SolveResume ==
  /\ pc = "return"
  /\ stack = <<>>
  /\ ~direct
  /\ LET n == SolveNarrow(min, max, med, ret)
     IN min' = n.min /\ max' = n.max
  /\ pc' = "solve"
  /\ UNCHANGED <<solverVars, weak, mainVars, root, med, result, negamaxVars,
                 direct, history>>

\* lines 139-143
Reset ==
  /\ nodeCount' = 0
  /\ transTable' = EmptyTable

\* ------------------------------------------------------------------------
\* main (lines 181-206)
\* ------------------------------------------------------------------------
\* seeded fault: the move index counted from zero
InvalidMoveIndexFromZero(P) == nbMoves(P)

\* line 194: the move index of the diagnostic
InvalidMoveIndex(P) == nbMoves(P) + 1

\* lines 190-200: read a line and play it; an invalid line is reported and
\* answered by an empty line, a valid one resets the solver and is solved
MainLine(ln) ==
  /\ pc = "main"
  /\ l <= MaxLines
  /\ line' = ln
  /\ LET r == playSeq(ln)
     IN IF r.n # Len(ln)
        THEN /\ err' = Append(err, [l |-> l, k |-> InvalidMoveIndex(r.P), line |-> ln])
             /\ out' = Append(out, <<>>)
             /\ l' = l + 1
             /\ history' = [history EXCEPT !.input = Append(@, ln)]
             /\ UNCHANGED <<pc, nodeCount, transTable, solveVars, negamaxVars,
                            direct>>
        ELSE /\ Reset
             /\ SolveBegin(r.P, weak)
             /\ history' = [history EXCEPT !.input = Append(@, ln),
                                           !.resets = @ + 1, !.solves = @ + 1,
                                           !.calls = @ + 1, !.entered = 0,
                                           !.before = 0, !.empty = TRUE]
             /\ UNCHANGED <<l, out, err>>
  /\ UNCHANGED <<construct, columnOrder, weak>>

\* lines 202-204: the result line (the elapsed time is left out)
MainPrint ==
  /\ pc = "solved"
  /\ out' = Append(out, <<line, result, nodeCount>>)
  /\ l' = l + 1
  /\ pc' = "main"
  /\ UNCHANGED <<solverVars, weak, line, err, solveVars, negamaxVars, direct,
                 history>>

\* line 190: getline fails at the end of the input
MainEof ==
  /\ pc = "main"
  /\ pc' = "exit"
  /\ UNCHANGED <<solverVars, weak, mainVars, solveVars, negamaxVars, direct,
                 history>>

Negamax == NegamaxEnter \/ NegamaxLoop \/ NegamaxReturn

Next ==
  \/ \E ln \in DriverLines : MainLine(ln)
  \/ MainPrint
  \/ MainEof
  \/ SolveLoop
  \/ SolveResume
  \/ Negamax

Spec == Init /\ [][Next]_vars

\* ------------------------------------------------------------------------
\* The Solver's public surface called directly: solve and reset in any order
\* ------------------------------------------------------------------------
CallSolve(ln, wk, cap) ==
  /\ pc = "idle"
  /\ history.calls < cap
  /\ weak' = wk
  /\ SolveBegin(playSeq(ln).P, wk)
  /\ history' = [history EXCEPT !.calls = @ + 1, !.entered = 0,
                                !.before = nodeCount,
                                !.empty = (transTable = EmptyTable)]
  /\ UNCHANGED <<solverVars, mainVars>>

CallReset ==
  /\ pc = "idle"
  /\ Reset
  /\ UNCHANGED <<pc, construct, columnOrder, weak, mainVars, solveVars,
                 negamaxVars, direct, history>>

\* solve returned to its caller
CallReturn ==
  /\ pc = "solved"
  /\ pc' = "idle"
  /\ history' = [history EXCEPT
                   !.fresh = IF history.empty /\ ~weak /\ root \notin DOMAIN @
                             THEN @ @@ (root :> [result |-> result,
                                                 entered |-> history.entered])
                             ELSE @]
  /\ UNCHANGED <<solverVars, weak, mainVars, solveVars, negamaxVars, direct>>

InitIdle ==
  /\ pc = "idle"
  /\ Constructed(WIDTH)
  /\ weak = FALSE
  /\ l = 1 /\ line = <<>> /\ out = <<>> /\ err = <<>>
  /\ Quiet

NextApi ==
  \/ \E ln \in ApiLines, wk \in BOOLEAN : CallSolve(ln, wk, MaxCalls)
  \/ CallReset
  \/ CallReturn
  \/ SolveLoop
  \/ SolveResume
  \/ Negamax

SpecApi == InitIdle /\ [][NextApi]_vars

\* one solve, strong or weak, of any of the SolveLines on a new Solver
NextSolve ==
  \/ \E ln \in SolveLines, wk \in BOOLEAN : CallSolve(ln, wk, 1)
  \/ SolveLoop
  \/ SolveResume
  \/ Negamax

SpecSolve == InitIdle /\ [][NextSolve]_vars

\* one solve of one of the deepest SolveLines that go on with column WIDTH
\* and then column 1 or 2; the solver is sequential code that runs to
\* completion, so a solve that began always takes its next step
FairLines ==
  {ln \in SolveLines : /\ Len(ln) = Len(BaseLine) + MaxSuffix
                       /\ ln[Len(BaseLine) + 1] = WIDTH
                       /\ ln[Len(BaseLine) + 2] <= 2}

NextSolveFair ==
  \/ \E ln \in FairLines, wk \in BOOLEAN : CallSolve(ln, wk, 1)
  \/ SolveLoop
  \/ SolveResume
  \/ Negamax

SpecSolveFair ==
  InitIdle /\ [][NextSolveFair]_vars /\ WF_vars(SolveLoop \/ SolveResume \/ Negamax)

\* one call of negamax with any window on a new Solver
Windows ==
  {w \in ((-MaxWindow)..MaxWindow) \X ((-MaxWindow)..MaxWindow) : w[1] < w[2]}

CallNegamax(ln, w) ==
  /\ pc = "idle"
  /\ history.calls < 1
  /\ ~canWinNext(playSeq(ln).P)
  /\ root' = playSeq(ln).P
  /\ arg' = [P |-> root', alpha |-> w[1], beta |-> w[2]]
  /\ direct' = TRUE
  /\ pc' = "enter"
  /\ history' = [history EXCEPT !.calls = @ + 1]
  /\ UNCHANGED <<solverVars, weak, mainVars, min, max, med, result, stack, ret>>

NextNegamax ==
  \/ \E ln \in SolveLines, w \in Windows : CallNegamax(ln, w)
  \/ Negamax

SpecNegamax == InitIdle /\ [][NextNegamax]_vars

\* the constructor, for boards of any width up to MaxCtorWidth
InitCtor ==
  /\ pc = "ctor"
  /\ construct \in {[W |-> w, i |-> 0] : w \in 1..MaxCtorWidth}
  /\ columnOrder = <<>>
  /\ nodeCount = 0
  /\ transTable = EmptyTable
  /\ weak = FALSE
  /\ l = 1 /\ line = <<>> /\ out = <<>> /\ err = <<>>
  /\ Quiet

NextCtor == CtorStep \/ CtorDone

SpecCtor == InitCtor /\ [][NextCtor]_vars

\* ------------------------------------------------------------------------
\* The reference: full minimax over every position the inputs can lead to
\* ------------------------------------------------------------------------
SetMax(S) == CHOOSE x \in S : \A y \in S : y <= x

\* the positions one stone later in which nobody has won
Children(P) == {play(P, m) : m \in possible(P) \ winning_position(P)}

RECURSIVE Reachable(_)
Reachable(S) ==
  IF S = {} THEN {} ELSE S \cup Reachable(UNION {Children(p) : p \in S})

Positions == Reachable({playSeq(BaseLine).P})

\* Minimax value, for the side to move, of every position with n stones or
\* more: a player who can complete an alignment wins at once and scores
\* (WIDTH*HEIGHT + 1 - stones)/2; a full board is a draw.  `stones` counts
\* the stones before the winning one (counted = 0) or with it (counted = 1).
RECURSIVE Minimax(_, _)
Minimax(n, counted) ==
  IF n > WIDTH * HEIGHT THEN <<>>
  ELSE LET deeper == Minimax(n + 1, counted)
       IN [p \in {q \in Positions : q.moves = n} |->
             IF canWinNext(p) THEN CDiv(WIDTH * HEIGHT + 1 - (n + counted), 2)
             ELSE IF n = WIDTH * HEIGHT THEN 0
             ELSE SetMax({-deeper[play(p, m)] : m \in possible(p)})] @@ deeper

ActualScoreTable == Minimax(Len(BaseLine), 0)
ActualScore(P) == ActualScoreTable[P]

\* the score the reference assigns when a win is worth
\* (WIDTH*HEIGHT + 1 - n)/2 with n counting the winning stone
ClaimedScoreTable == Minimax(Len(BaseLine), 1)
ClaimedScore(P) == ClaimedScoreTable[P]

\* the position a table slot stands for: the key is rebuilt from the slot's
\* index (key mod size) and its stored part (key mod 2^(key_size - LOG_SIZE)), then read
\* column by column (each column of the key is stones + mask, the mask of
\* a column of height h being 2^h - 1)
FullKey(T, i) ==
  CHOOSE k \in {T.K[i] + Pow2(key_size - LOG_SIZE) * j : j \in 0..(size - 1)} :
     index(k) = i

ColumnSum(k, c) == (k \div Pow2(c * (HEIGHT + 1))) % Pow2(HEIGHT + 1)

ColumnHeight(k, c) ==
  CHOOSE h \in 0..HEIGHT : Pow2(h) <= ColumnSum(k, c) + 1
                           /\ ColumnSum(k, c) + 1 < Pow2(h + 1)

DecodeKey(k) ==
  LET stones(c) == ColumnSum(k, c) + 1 - Pow2(ColumnHeight(k, c))
      mask == {b \in board_mask : RowOf(b) < ColumnHeight(k, ColOf(b))}
  IN [current_position |->
        {b \in mask : (stones(ColOf(b)) \div Pow2(RowOf(b))) % 2 = 1},
      mask |-> mask,
      moves |-> Cardinality(mask)]

\* the actual score of the position of every key
ScoreOfKey == [k \in {key(p) : p \in Positions} |-> ActualScore(DecodeKey(k))]

Solving == pc \in {"solve", "enter", "loop", "return"}

\* ------------------------------------------------------------------------
\* C1
\* ------------------------------------------------------------------------
\* C1 as stated: a strong solve returns the reference minimax value in which
\* a win is worth (WIDTH*HEIGHT + 1 - n)/2, n being the number of stones on
\* the board once the winning stone is placed.
C1_SolveScoreCountingWinningStone ==
  (pc = "solved" /\ ~weak) => result = ClaimedScore(root)

\* C1, amended: a strong solve returns exactly the minimax value of the
\* position for the side to move, a win being worth
\* (WIDTH*HEIGHT + 1 - m)/2 where m is the number of stones on the board
\* before the winning stone is placed; this includes the positions where
\* canWinNext() holds and no search is made.
C1_SolveExact ==
  (pc = "solved" /\ ~weak) => result = ActualScore(root)

\* a strong solve that searched and found a loss, and whose value differs
\* from the one counted with the winning stone
C1_SearchedLoss ==
  /\ pc = "solved" /\ ~weak
  /\ ~canWinNext(root)
  /\ history.entered > 1
  /\ result < 0
  /\ result = ActualScore(root)
  /\ result # ClaimedScore(root)

\* ------------------------------------------------------------------------
\* C2
\* ------------------------------------------------------------------------
\* C2: a weak solve returns a value in {-1, 0, +1}, the sign of the score a
\* strong solve returns for the same position.
C2_WeakSolveIsSign ==
  (pc = "solved" /\ weak) =>
     /\ result \in {-1, 0, 1}
     /\ result = sign(ActualScore(root))

\* ------------------------------------------------------------------------
\* C3
\* ------------------------------------------------------------------------
\* C3: a strong solve returns the same value whatever the transposition
\* table held when it began: the value it returned for the same position
\* when it began on an empty table.
C3_SolveDeterministic ==
  (pc = "solved" /\ ~weak /\ root \in DOMAIN history.fresh) =>
     result = history.fresh[root].result

\* a strong solve that began on a table filled by earlier solves, was steered
\* by it (it entered another number of nodes than on an empty table) and
\* returned the same value
C3_SolvedOnUsedTable ==
  /\ pc = "solved" /\ ~weak
  /\ ~history.empty
  /\ root \in DOMAIN history.fresh
  /\ history.entered # history.fresh[root].entered
  /\ result = history.fresh[root].result

\* ------------------------------------------------------------------------
\* C4
\* ------------------------------------------------------------------------
\* C4: during a solve and after it, nodeCount (what getNodeCount() returns)
\* is the number of negamax nodes entered by that solve alone.
C4_NodeCountOfLastSolve ==
  (Solving \/ pc = "solved") => nodeCount = history.entered

\* ------------------------------------------------------------------------
\* C5
\* ------------------------------------------------------------------------
\* C5: every line read gives exactly one line of standard output, in input
\* order; an invalid line gives an empty one and exactly one diagnostic,
\* whose move index is the number of moves applied plus one; reset and
\* solve are called for the valid lines only; main goes on reading.
C5_InvalidLines ==
  LET input == history.input
      Invalid == {i \in 1..Len(input) : playSeq(input[i]).n # Len(input[i])}
  IN /\ Len(out) = l - 1
     /\ Len(input) = IF Solving \/ pc = "solved" THEN l ELSE l - 1
     /\ pc \in {"main", "exit", "solve", "enter", "loop", "return", "solved"}
     /\ \A i \in 1..Len(out) :
          IF i \in Invalid THEN out[i] = <<>>
          ELSE out[i] # <<>> /\ out[i][1] = input[i]
     /\ Len(err) = Cardinality(Invalid)
     /\ \A j \in 1..Len(err) :
          /\ err[j].l \in Invalid
          /\ err[j].line = input[err[j].l]
          /\ err[j].k = playSeq(input[err[j].l]).n + 1
          /\ \A j2 \in 1..Len(err) : err[j2].l = err[j].l => j2 = j
     /\ history.resets = Len(input) - Cardinality(Invalid)
     /\ history.solves = Len(input) - Cardinality(Invalid)

\* an invalid line with moves applied was answered, and the valid line
\* after it was solved and printed
C5_InvalidThenValid ==
  /\ Len(out) = 2
  /\ out[1] = <<>>
  /\ out[2] # <<>>
  /\ Len(err) = 1
  /\ err[1].k > 1
  /\ history.solves = 1

\* ------------------------------------------------------------------------
\* C6
\* ------------------------------------------------------------------------
\* C6: negamax(P, alpha, beta) returns a value between the actual score and
\* alpha when the actual score is at most alpha, between beta and the
\* actual score when it is at least beta, and the actual score otherwise.
C6_NegamaxContract ==
  pc = "return" =>
     LET c == history.from
         actual == ActualScore(c.P)
     IN IF actual <= c.alpha THEN actual <= ret /\ ret <= c.alpha
        ELSE IF actual >= c.beta THEN c.beta <= ret /\ ret <= actual
        ELSE ret = actual

\* a call inside a search returned the exact non-zero score of its
\* position, strictly inside a window wider than one
C6_ExactInsideWindow ==
  /\ pc = "return"
  /\ stack # <<>>
  /\ history.from.alpha < ret
  /\ ret < history.from.beta - 1
  /\ ret # 0
  /\ ret = ActualScore(history.from.P)

\* ------------------------------------------------------------------------
\* C7
\* ------------------------------------------------------------------------
\* C7: every value stored in the transposition table is in
\* 1..(MAX_SCORE - MIN_SCORE + 1) and, decoded, is an upper bound of the
\* actual score of the position it is stored for.
C7_BoundValidity ==
  \A i \in 0..(size - 1) :
     transTable.V[i] # 0 =>
        /\ transTable.V[i] \in 1..(MAX_SCORE - MIN_SCORE + 1)
        /\ FullKey(transTable, i) \in DOMAIN ScoreOfKey
        /\ ScoreOfKey[FullKey(transTable, i)] <= transTable.V[i] + MIN_SCORE - 1

\* the table holds a bound that is the exact score and a bound that is not
C7_TightAndLooseBounds ==
  /\ \E i \in 0..(size - 1) :
        /\ transTable.V[i] # 0
        /\ ScoreOfKey[FullKey(transTable, i)] = transTable.V[i] + MIN_SCORE - 1
  /\ \E i \in 0..(size - 1) :
        /\ transTable.V[i] # 0
        /\ ScoreOfKey[FullKey(transTable, i)] < transTable.V[i] + MIN_SCORE - 1

\* ------------------------------------------------------------------------
\* C8
\* ------------------------------------------------------------------------
\* C8: during a solve every call of negamax, a probe or a recursive call,
\* is entered with alpha < beta on a position whose side to move cannot win
\* at once: neither assertion fails.
C8_NegamaxPreconditions ==
  /\ pc # "abort"
  /\ pc = "enter" => arg.alpha < arg.beta /\ ~canWinNext(arg.P)

\* a recursive call three levels below a probe is being entered
C8_DeepRecursiveCall ==
  /\ pc = "enter"
  /\ ~direct
  /\ Len(stack) >= 3
  /\ arg.P.moves = root.moves + Len(stack)

\* ------------------------------------------------------------------------
\* C9
\* ------------------------------------------------------------------------
C9_ProbeInWindow ==
  /\ (pc = "enter" /\ stack = <<>>) =>
        min <= med /\ med < max /\ arg.alpha = med /\ arg.beta = med + 1
  /\ \A i \in 1..Len(stack) : stack[i].P.moves < WIDTH * HEIGHT - 2
  /\ Len(stack) <= WIDTH * HEIGHT

C9_Progress ==
  /\ (pc = "return" /\ stack = <<>> /\ pc' # "return") =>
        \/ max' < max /\ min' = min
        \/ min' > min /\ max' = max
  /\ (pc = "loop" /\ pc' = "enter") => arg'.P.moves = Top.P.moves + 1

\* C9: solve terminates: every probe has min <= med < max, every probe's
\* result moves max down or min up, every recursive call is on a position
\* with one more stone and none is made from nbMoves >= WIDTH*HEIGHT - 2,
\* and a solve that was called returns.
C9_SolveTerminates ==
  /\ []C9_ProbeInWindow
  /\ [][C9_Progress]_vars
  /\ (Solving ~> pc = "solved")

\* a probe begins after earlier probes moved both min and max
C9_ProbeAfterBothMoved ==
  /\ pc = "enter" /\ stack = <<>>
  /\ min > SolveMin(root, weak)
  /\ max < SolveMax(root, weak)
  /\ min <= med /\ med < max

\* ------------------------------------------------------------------------
\* C10
\* ------------------------------------------------------------------------
\* C10: a Solver constructed for WIDTH = 7 has columnOrder
\* {3, 4, 2, 5, 1, 6, 0}.
C10_ColumnOrderWidth7 ==
  (construct.W = 7 /\ construct.i = 7) => columnOrder = <<3, 4, 2, 5, 1, 6, 0>>
====
